---- MODULE Spec2Model ----
(***************************************************************************)
(* Adaptive assessment engine of the exam portal: the in-memory lecture    *)
(* and session stores of app/routers/lectures.py, the handlers that        *)
(* mutate them (router and app/main.py entry points), and the pure helpers *)
(* they call (selector, difficulty controller, text normalisation).        *)
(*                                                                         *)
(* Representation:                                                         *)
(*   - Optional[T] is a sequence of length <= 1: None == <<>>,             *)
(*     Some(x) == <<x>>.                                                   *)
(*   - a Python str is a sequence of one-character strings.                *)
(*   - uuid4() values are fresh integers drawn from counters; 0 is an id   *)
(*     that names nothing.                                                 *)
(*   - datetime.now() is a wall-clock read: a nondeterministic value of    *)
(*     Times.                                                              *)
(*   - AnswerRecord keeps question_id, is_correct and difficulty; the      *)
(*     fields learner_answer, selected_option_index and time_spent are     *)
(*     stored verbatim and never read back by any handler modelled here;   *)
(*     TestSession.started_at is likewise only written.                    *)
(*   - analytics_fault tells whether the analytics engine is one whose     *)
(*     record_session may raise; it never changes. The engine of           *)
(*     app/services/analytics.py works on in-memory lists, so Init has it  *)
(*     FALSE; InitAnalyticsFault is the deployment with a failing engine.  *)
(*   - limits holds the number of sessions, of recorded answers and of     *)
(*     proctoring events a behaviour is followed up to; it never changes.  *)
(*     Each specification sets it in its initial predicate.                *)
(***************************************************************************)
EXTENDS Integers, Sequences, FiniteSets, TLC

VARIABLES LECTURES, SESSIONS, issued, proctoring, student_data, resp, analytics_fault,
          limits

vars == <<LECTURES, SESSIONS, issued, proctoring, student_data, resp, analytics_fault, limits>>

\* ------------------------------------------------------------------------
\* Bounds of the model
\* ------------------------------------------------------------------------
MaxLectures == 1
MaxSessions == 1
MaxQids == 3
MaxTotalAnswers == 2
MaxEvents == 1
MaxTime == 2
\* longest answer history handed to the difficulty step on its own
MaxHistory == 4

Times == 1..MaxTime

\* how far a behaviour is followed: sessions started, answers recorded,
\* proctoring events logged
Limits(sessions, answers, events) ==
    [sessions |-> sessions, answers |-> answers, events |-> events]
BaseLimits == Limits(MaxSessions, MaxTotalAnswers, MaxEvents)

\* ------------------------------------------------------------------------
\* Optional values and strings
\* ------------------------------------------------------------------------
None == << >>
Some(x) == << x >>

S_a == << "a" >>
S_b == << "b" >>
S_pad_A == << " ", "A", " " >>
S_empty == << >>

IsSpace(c) == c = " "

LowerChar(c) ==
    IF c = "A" THEN "a" ELSE IF c = "B" THEN "b" ELSE IF c = "S" THEN "s" ELSE c

RECURSIVE lstrip(_)
lstrip(s) == IF s # << >> /\ IsSpace(Head(s)) THEN lstrip(Tail(s)) ELSE s

RECURSIVE rstrip(_)
rstrip(s) ==
    IF s # << >> /\ IsSpace(s[Len(s)]) THEN rstrip(SubSeq(s, 1, Len(s) - 1)) ELSE s

strip(s) == rstrip(lstrip(s))

lower(s) == [i \in 1..Len(s) |-> LowerChar(s[i])]

\* normalize_text(s) = (s or "").strip().lower(); s is an Optional[str]
normalize_text(s) == lower(strip(IF s = None THEN S_empty ELSE s[1]))

\* ------------------------------------------------------------------------
\* Questions and the generator's possible outputs
\* ------------------------------------------------------------------------
DIFFICULTY_ORDER == << "easy", "medium", "hard" >>

MCQOption(text, is_correct) == [text |-> text, is_correct |-> is_correct]

\* a question as the generator describes it, before its id is drawn
QuestionData(type, options, answer, difficulty) ==
    [type |-> type, options |-> options, answer |-> answer, difficulty |-> difficulty]

GeneratedQuestion(id, d) ==
    [id |-> id, type |-> d.type, options |-> d.options, answer |-> d.answer,
     difficulty |-> d.difficulty]

OptsAB == << MCQOption(S_a, TRUE), MCQOption(S_b, FALSE) >>

D_mcq_medium == QuestionData("mcq", Some(OptsAB), Some(S_a), "medium")
D_fill_easy == QuestionData("fill_blank", None, Some(<< "A" >>), "easy")
D_short_hard == QuestionData("short_answer", None, Some(S_b), "hard")
D_mcq_hard == QuestionData("mcq", Some(OptsAB), Some(S_a), "hard")

\* option lists as the generator builds them from the model's JSON, whose
\* is_correct flags it copies unchecked: none flagged, two flagged
OptsNoneFlagged == << MCQOption(S_a, FALSE), MCQOption(S_b, FALSE) >>
OptsTwoFlagged == << MCQOption(S_b, FALSE), MCQOption(S_a, TRUE), MCQOption(S_b, TRUE) >>

D_mcq_none_flagged == QuestionData("mcq", Some(OptsNoneFlagged), Some(S_b), "medium")
D_mcq_two_flagged == QuestionData("mcq", Some(OptsTwoFlagged), Some(S_a), "medium")
\* an mcq whose JSON carries no (or an empty) "options": options = None
D_mcq_no_options == QuestionData("mcq", None, Some(S_a), "medium")

\* catalog [Q1(medium), Q2(easy), Q3(hard)]
G_ScenarioA == << D_mcq_medium, D_fill_easy, D_short_hard >>
\* a catalog whose medium question is not the first one
G_EasyMedium == << D_fill_easy, D_mcq_medium >>
\* a one-question catalog without a medium question
G_Single == << D_mcq_hard >>
G_Empty == << >>
G_Degenerate == << D_mcq_none_flagged, D_mcq_two_flagged, D_mcq_no_options >>

GenOutputs == { G_ScenarioA, G_EasyMedium, G_Single, G_Empty, G_Degenerate }

\* ------------------------------------------------------------------------
\* Helper functions of the router
\* ------------------------------------------------------------------------
QuestionIds(lecture) == { lecture.questions[i].id : i \in 1..Len(lecture.questions) }

\* variant: falls back to the first question instead of raising
get_question_by_id_Fallback(lecture, question_id) ==
    LET hits == SelectSeq(lecture.questions, LAMBDA q : q.id = question_id)
    IN  IF hits # << >> THEN Some(hits[1])
        ELSE IF lecture.questions # << >> THEN Some(lecture.questions[1])
        ELSE None

\* get_question_by_id: Some(first question with that id), or None where the
\* code raises HTTPException(404, "Question not found in lecture.")
get_question_by_id(lecture, question_id) ==
    LET hits == SelectSeq(lecture.questions, LAMBDA q : q.id = question_id)
    IN  IF hits # << >> THEN Some(hits[1]) ELSE None

question_already_answered(session, question_id) ==
    \E i \in 1..Len(session.answers) : session.answers[i].question_id = question_id

\* variant: without the fallback to any unanswered question
select_next_question_NoFallback(lecture, session) ==
    LET candidates == SelectSeq(lecture.questions,
                          LAMBDA q : /\ q.difficulty = session.current_difficulty
                                     /\ ~question_already_answered(session, q.id))
    IN  IF candidates # << >> THEN Some(candidates[1]) ELSE None

\* variant: without the preference for the current difficulty
select_next_question_AnyFirst(lecture, session) ==
    LET remaining == SelectSeq(lecture.questions,
                          LAMBDA q : ~question_already_answered(session, q.id))
    IN  IF remaining # << >> THEN Some(remaining[1]) ELSE None

\* variant: takes the last candidate of a list instead of the first
select_next_question_LastCandidate(lecture, session) ==
    LET candidates == SelectSeq(lecture.questions,
                          LAMBDA q : /\ q.difficulty = session.current_difficulty
                                     /\ ~question_already_answered(session, q.id))
        remaining == SelectSeq(lecture.questions,
                          LAMBDA q : ~question_already_answered(session, q.id))
    IN  IF candidates # << >> THEN Some(candidates[Len(candidates)])
        ELSE IF remaining # << >> THEN Some(remaining[Len(remaining)])
        ELSE None

\* select_next_question: Some(question) or None
select_next_question(lecture, session) ==
    LET candidates == SelectSeq(lecture.questions,
                          LAMBDA q : /\ q.difficulty = session.current_difficulty
                                     /\ ~question_already_answered(session, q.id))
        remaining == SelectSeq(lecture.questions,
                          LAMBDA q : ~question_already_answered(session, q.id))
    IN  IF candidates # << >> THEN Some(candidates[1])
        ELSE IF remaining # << >> THEN Some(remaining[1])
        ELSE None

\* variant: the whole history instead of its last three records
LastThree_All(answers) == answers

\* answers[-3:]
LastThree(answers) ==
    IF Len(answers) <= 3 THEN answers ELSE SubSeq(answers, Len(answers) - 2, Len(answers))

CountCorrect(answers) == Cardinality({ i \in 1..Len(answers) : answers[i].is_correct })

\* DIFFICULTY_ORDER.index(d), 0-based
DifficultyIndex(d) == CHOOSE i \in 0..2 : DIFFICULTY_ORDER[i + 1] = d

\* variant: a promotion that does not stop at the last level
update_difficulty_NoCeiling(session) ==
    IF session.answers = << >> THEN session
    ELSE
        LET window == LastThree(session.answers)
            correct == CountCorrect(window)
            n == Len(window)
            current_idx == IF \E i \in 0..2 : DIFFICULTY_ORDER[i + 1] = session.current_difficulty
                           THEN DifficultyIndex(session.current_difficulty)
                           ELSE 1
        IN  IF 5 * correct >= 4 * n
            THEN [session EXCEPT !.current_difficulty =
                     IF current_idx < Len(DIFFICULTY_ORDER) - 1
                     THEN DIFFICULTY_ORDER[current_idx + 2] ELSE "expert"]
            ELSE IF 2 * correct <= n /\ current_idx > 0
            THEN [session EXCEPT !.current_difficulty = DIFFICULTY_ORDER[current_idx]]
            ELSE session

\* update_difficulty: the session with its current_difficulty stepped.
\* accuracy >= 0.8 is 5*correct >= 4*n, accuracy <= 0.5 is 2*correct <= n.
update_difficulty(session) ==
    IF session.answers = << >> THEN session
    ELSE
        LET window == LastThree(session.answers)
            correct == CountCorrect(window)
            n == Len(window)
            current_idx == IF \E i \in 0..2 : DIFFICULTY_ORDER[i + 1] = session.current_difficulty
                           THEN DifficultyIndex(session.current_difficulty)
                           ELSE 1
        IN  IF 5 * correct >= 4 * n /\ current_idx < Len(DIFFICULTY_ORDER) - 1
            THEN [session EXCEPT !.current_difficulty = DIFFICULTY_ORDER[current_idx + 2]]
            ELSE IF 2 * correct <= n /\ current_idx > 0
            THEN [session EXCEPT !.current_difficulty = DIFFICULTY_ORDER[current_idx]]
            ELSE session

\* ------------------------------------------------------------------------
\* Records of the stores
\* ------------------------------------------------------------------------
Lecture(id) == [id |-> id, questions |-> << >>]

\* variant: answers and proctoring_flags default to one list object shared by
\* all sessions, so a new session holds what earlier sessions appended
TestSession_SharedDefaults(id, lecture_id, learner_id) ==
    [id |-> id, lecture_id |-> lecture_id, learner_id |-> learner_id,
     current_difficulty |-> "medium",
     answers |-> IF SESSIONS = << >> THEN << >> ELSE SESSIONS[1].answers,
     correct_count |-> 0, total_answered |-> 0,
     completed_at |-> None,
     proctoring_flags |-> IF SESSIONS = << >> THEN << >> ELSE SESSIONS[1].proctoring_flags]

TestSession(id, lecture_id, learner_id) ==
    [id |-> id, lecture_id |-> lecture_id, learner_id |-> learner_id,
     current_difficulty |-> "medium", answers |-> << >>,
     correct_count |-> 0, total_answered |-> 0,
     completed_at |-> None, proctoring_flags |-> << >>]

AnswerRecord(question_id, is_correct, difficulty) ==
    [question_id |-> question_id, is_correct |-> is_correct, difficulty |-> difficulty]

EventTypes == { "tab_switch", "face_not_detected", "multiple_faces", "suspicious_object" }

\* ProctoringEngine.start_proctoring_session: the engine's record of a session
ProctoringSession ==
    [events |-> << >>, flags |-> [t \in EventTypes |-> 0], risk_level |-> "low"]

\* ------------------------------------------------------------------------
\* The response of the last call. lecture_id, session_id, question_id,
\* selected_option_index and learner_answer are the request fields the handler had resolved when
\* it returned (0 / None before that). analytics_notified tells whether the
\* call reached analytics_engine.record_session(session, lecture).
\* ------------------------------------------------------------------------
\* score is the fraction <<correct_count, total_answered>>; 0.0 is <<0, 1>>
NoResponse ==
    [op |-> "none", status |-> 0, detail |-> "", lecture_id |-> 0, session_id |-> 0,
     question_id |-> 0, selected_option_index |-> None, learner_answer |-> None,
     correct |-> FALSE, correct_answer |-> None, finished |-> FALSE,
     score |-> << 0, 1 >>, question |-> None, next_question |-> None,
     current_difficulty |-> None, analytics_notified |-> FALSE]

\* raise HTTPException(status_code, detail)
HTTPException(op, status, detail) ==
    [NoResponse EXCEPT !.op = op, !.status = status, !.detail = detail]

Init ==
    /\ LECTURES = << >>
    /\ SESSIONS = << >>
    /\ issued = 0
    /\ proctoring = << >>
    /\ student_data = [l \in { "u1" } |-> << >>]
    /\ resp = NoResponse
    /\ analytics_fault = FALSE
    /\ limits = BaseLimits

\* the same stores, served by an analytics engine whose record_session may raise
InitAnalyticsFault ==
    /\ LECTURES = << >>
    /\ SESSIONS = << >>
    /\ issued = 0
    /\ proctoring = << >>
    /\ student_data = [l \in { "u1" } |-> << >>]
    /\ resp = NoResponse
    /\ analytics_fault = TRUE
    /\ limits = BaseLimits

\* ------------------------------------------------------------------------
\* Lecture creation and question generation
\* ------------------------------------------------------------------------
\* create_lecture_from_text (from-audio and api_transcribe store a lecture
\* the same way): a new lecture with a fresh id and no questions
create_lecture_from_text ==
    /\ Len(LECTURES) < MaxLectures
    /\ LECTURES' = Append(LECTURES, Lecture(Len(LECTURES) + 1))
    /\ resp' = [NoResponse EXCEPT !.op = "create_lecture_from_text", !.status = 200]
    /\ UNCHANGED <<analytics_fault, limits, SESSIONS, issued, proctoring, student_data>>

\* generate_questions_for_lecture: the generator returns the list g, every
\* question with a fresh uuid, and the list replaces lecture.questions
generate_questions_for_lecture(lecture_id, g) ==
    /\ IF lecture_id \notin DOMAIN LECTURES
       THEN /\ resp' = HTTPException("generate_questions_for_lecture", 404, "Lecture not found.")
            /\ UNCHANGED <<analytics_fault, limits, LECTURES, SESSIONS, issued, proctoring, student_data>>
       ELSE /\ issued + Len(g) <= MaxQids
            /\ LET questions == [i \in 1..Len(g) |-> GeneratedQuestion(issued + i, g[i])]
               IN  LECTURES' = [LECTURES EXCEPT ![lecture_id].questions = questions]
            /\ issued' = issued + Len(g)
            /\ resp' = [NoResponse EXCEPT !.op = "generate_questions_for_lecture",
                                          !.status = 200]
            /\ UNCHANGED <<analytics_fault, limits, SESSIONS, proctoring, student_data>>

\* ------------------------------------------------------------------------
\* Starting a session
\* ------------------------------------------------------------------------
Truthy(learner_id) == learner_id # None /\ learner_id[1] # ""

\* variant: stores the session before it checks for questions
start_session_StoreFirst(lecture_id, learner_id) ==
    LET session_id == Len(SESSIONS) + 1
        session == TestSession(session_id, lecture_id, learner_id)
    IN  IF lecture_id \notin DOMAIN LECTURES
        THEN /\ resp' = [HTTPException("start_session", 400,
                                       "Lecture not found or no questions generated yet.")
                            EXCEPT !.lecture_id = lecture_id]
             /\ UNCHANGED <<analytics_fault, limits, LECTURES, SESSIONS, issued, proctoring, student_data>>
        ELSE /\ Len(SESSIONS) < limits.sessions
             /\ SESSIONS' = Append(SESSIONS, session)
             /\ proctoring' = (session_id :> ProctoringSession) @@ proctoring
             /\ LET first_q == select_next_question(LECTURES[lecture_id], session)
                IN  resp' = IF first_q = None
                            THEN [HTTPException("start_session", 400, "No questions available.")
                                     EXCEPT !.lecture_id = lecture_id]
                            ELSE [NoResponse EXCEPT !.op = "start_session", !.status = 200,
                                                    !.lecture_id = lecture_id,
                                                    !.session_id = session_id,
                                                    !.question = first_q]
             /\ UNCHANGED <<analytics_fault, limits, LECTURES, issued, student_data>>

\* start_session (router)
start_session(lecture_id, learner_id) ==
    /\ IF lecture_id \notin DOMAIN LECTURES \/ LECTURES[lecture_id].questions = << >>
       THEN /\ resp' = [HTTPException("start_session", 400,
                                      "Lecture not found or no questions generated yet.")
                           EXCEPT !.lecture_id = lecture_id]
            /\ UNCHANGED <<analytics_fault, limits, LECTURES, SESSIONS, issued, proctoring, student_data>>
       ELSE LET lecture == LECTURES[lecture_id]
                session_id == Len(SESSIONS) + 1
                session == TestSession(session_id, lecture_id, learner_id)
                first_q == select_next_question(lecture, session)
            IN  IF first_q = None
                THEN /\ resp' = [HTTPException("start_session", 400, "No questions available.")
                                    EXCEPT !.lecture_id = lecture_id]
                     /\ UNCHANGED <<analytics_fault, limits, LECTURES, SESSIONS, issued, proctoring, student_data>>
                ELSE /\ Len(SESSIONS) < limits.sessions
                     /\ SESSIONS' = Append(SESSIONS, session)
                     /\ proctoring' = (session_id :> ProctoringSession) @@ proctoring
                     /\ resp' = [NoResponse EXCEPT !.op = "start_session", !.status = 200,
                                                   !.lecture_id = lecture_id,
                                                   !.session_id = session_id,
                                                   !.question = first_q]
                     /\ UNCHANGED <<analytics_fault, limits, LECTURES, issued, student_data>>

\* api_start_exam (app/main.py): the same steps on the same stores, without
\* the proctoring engine; student_id is a required string
api_start_exam(lecture_id, student_id) ==
    /\ IF lecture_id \notin DOMAIN LECTURES \/ LECTURES[lecture_id].questions = << >>
       THEN /\ resp' = [HTTPException("api_start_exam", 400,
                                      "Lecture not found or no questions generated yet.")
                           EXCEPT !.lecture_id = lecture_id]
            /\ UNCHANGED <<analytics_fault, limits, LECTURES, SESSIONS, issued, proctoring, student_data>>
       ELSE LET lecture == LECTURES[lecture_id]
                session_id == Len(SESSIONS) + 1
                session == [TestSession(session_id, lecture_id, Some(student_id))
                               EXCEPT !.current_difficulty = "medium"]
                first_q == select_next_question(lecture, session)
            IN  IF first_q = None
                THEN /\ resp' = [HTTPException("api_start_exam", 400, "No questions available.")
                                    EXCEPT !.lecture_id = lecture_id]
                     /\ UNCHANGED <<analytics_fault, limits, LECTURES, SESSIONS, issued, proctoring, student_data>>
                ELSE /\ Len(SESSIONS) < limits.sessions
                     /\ SESSIONS' = Append(SESSIONS, session)
                     /\ resp' = [NoResponse EXCEPT !.op = "api_start_exam", !.status = 200,
                                                   !.lecture_id = lecture_id,
                                                   !.session_id = session_id,
                                                   !.question = first_q]
                     /\ UNCHANGED <<analytics_fault, limits, LECTURES, issued, proctoring, student_data>>

\* ------------------------------------------------------------------------
\* Submitting an answer
\* ------------------------------------------------------------------------
\* question.options or []
OptionsOrEmpty(question) == IF question.options = None THEN << >> ELSE question.options[1]

\* seq[i] of a Python list: a negative index counts from the end
PyIndex(seq, i) == IF i < 0 THEN seq[Len(seq) + i + 1] ELSE seq[i + 1]

\* variant: the range check without its negative half
IndexOutOfRange_NoNegative(question, selected_option_index) ==
    selected_option_index >= Len(OptionsOrEmpty(question))

\* the range check on selected_option_index
IndexOutOfRange(question, selected_option_index) ==
    \/ selected_option_index < 0
    \/ selected_option_index >= Len(OptionsOrEmpty(question))

\* variant: counts every answer as correct
UpdateSessionStats_CountAll(session, question, is_correct) ==
    [session EXCEPT
        !.total_answered = @ + 1,
        !.correct_count = @ + 1,
        !.answers = Append(@, AnswerRecord(question.id, is_correct, question.difficulty))]

\* variant: the counters and the list rebuilt from a copy taken before any
\* answer was recorded, so that earlier updates are lost
UpdateSessionStats_StaleCopy(session, question, is_correct) ==
    [session EXCEPT
        !.total_answered = 1,
        !.correct_count = IF is_correct THEN 1 ELSE 0,
        !.answers = << AnswerRecord(question.id, is_correct, question.difficulty) >>]

\* "Update session stats": both counters and the appended AnswerRecord
UpdateSessionStats(session, question, is_correct) ==
    [session EXCEPT
        !.total_answered = @ + 1,
        !.correct_count = IF is_correct THEN @ + 1 ELSE @,
        !.answers = Append(@, AnswerRecord(question.id, is_correct, question.difficulty))]

\* variant: falls back to the first option's text when none is flagged
CorrectAnswerText_FirstOption(question) ==
    LET flagged == SelectSeq(OptionsOrEmpty(question), LAMBDA opt : opt.is_correct)
    IN  IF flagged # << >> THEN Some(flagged[1].text)
        ELSE IF OptionsOrEmpty(question) # << >> THEN Some(OptionsOrEmpty(question)[1].text)
        ELSE question.answer

\* variant: the loop without its break, keeping the last flagged option
CorrectAnswerText_LastFlagged(question) ==
    LET flagged == SelectSeq(OptionsOrEmpty(question), LAMBDA opt : opt.is_correct)
    IN  IF flagged # << >> THEN Some(flagged[Len(flagged)].text) ELSE question.answer

\* text of the first option flagged is_correct, else the stored answer
CorrectAnswerText(question) ==
    LET flagged == SelectSeq(OptionsOrEmpty(question), LAMBDA opt : opt.is_correct)
    IN  IF flagged # << >> THEN Some(flagged[1].text) ELSE question.answer

TotalAnswers == LET RECURSIVE Sum(_)
                    Sum(n) == IF n = 0 THEN 0 ELSE Len(SESSIONS[n].answers) + Sum(n - 1)
                IN  Sum(Len(SESSIONS))

\* variant: the percentage that get_session_results computes
Score_Percent(session) ==
    IF session.total_answered # 0
    THEN << session.correct_count * 100, session.total_answered >>
    ELSE << 0, 1 >>

\* the running score of answer_question, api_answer_exam and get_session_info
Score(session) ==
    IF session.total_answered # 0
    THEN << session.correct_count, session.total_answered >>
    ELSE << 0, 1 >>

\* AnalyticsEngine.record_session: the entry appended to the learner's
\* "sessions" list (nothing when the session has no learner id); the entry's
\* date and score, and the per-difficulty lists, are functions of the session
record_session(data, session, lecture) ==
    IF ~Truthy(session.learner_id) THEN data
    ELSE [data EXCEPT ![session.learner_id[1]] =
              Append(@, [session_id |-> session.id, lecture_id |-> session.lecture_id])]

\* AnswerQuestionRequest (time_spent is only stored)
AnswerQuestionRequest(session_id, question_id, learner_answer, selected_option_index) ==
    [session_id |-> session_id, question_id |-> question_id,
     learner_answer |-> learner_answer, selected_option_index |-> selected_option_index]

\* variant: selects the next question before the difficulty step
RecordAnswer_SelectFirst(session, lecture, question, echo, is_correct, correct_answer_text) ==
    LET counted == UpdateSessionStats(session, question, is_correct)
        stepped == update_difficulty(counted)
        next_q == select_next_question(lecture, counted)
        finished == next_q = None
        notified == finished /\ Truthy(session.learner_id)
    IN  /\ TotalAnswers < limits.answers
        /\ \E now \in Times, raised \in { FALSE } \cup { r \in { TRUE } : notified /\ analytics_fault } :
              LET saved == IF finished THEN [stepped EXCEPT !.completed_at = Some(now)]
                           ELSE stepped
              IN  /\ SESSIONS' = [SESSIONS EXCEPT ![session.id] = saved]
                  /\ IF raised
                     THEN /\ student_data' \in { student_data,
                                                 record_session(student_data, saved, lecture) }
                          /\ resp' = [echo EXCEPT !.status = 500,
                                                  !.detail = "Internal Server Error",
                                                  !.analytics_notified = TRUE]
                     ELSE /\ student_data' = IF notified
                                             THEN record_session(student_data, saved, lecture)
                                             ELSE student_data
                          /\ resp' = [echo EXCEPT !.status = 200,
                                          !.correct = is_correct,
                                          !.correct_answer = correct_answer_text,
                                          !.finished = finished,
                                          !.score = Score(stepped),
                                          !.next_question = next_q,
                                          !.current_difficulty = Some(stepped.current_difficulty),
                                          !.analytics_notified = notified]
        /\ UNCHANGED <<analytics_fault, limits, LECTURES, issued, proctoring>>

\* the part of answer_question after the evaluation: counters, record,
\* difficulty step, selection, completion, analytics, save, response.
\* The session object is the one the store holds, so its mutations are in
\* the store as they happen. record_session is called with no try/except
\* around it: when it raises, the exception leaves the handler (the framework
\* answers 500) after the session has been updated and stamped, and with the
\* analytics entry written or not, depending on where it was raised.
RecordAnswer(session, lecture, question, echo, is_correct, correct_answer_text) ==
    LET counted == UpdateSessionStats(session, question, is_correct)
        stepped == update_difficulty(counted)
        next_q == select_next_question(lecture, stepped)
        finished == next_q = None
        notified == finished /\ Truthy(session.learner_id)
    IN  /\ TotalAnswers < limits.answers
        /\ \E now \in Times, raised \in { FALSE } \cup { r \in { TRUE } : notified /\ analytics_fault } :
              LET saved == IF finished THEN [stepped EXCEPT !.completed_at = Some(now)]
                           ELSE stepped
              IN  /\ SESSIONS' = [SESSIONS EXCEPT ![session.id] = saved]
                  /\ IF raised
                     THEN /\ student_data' \in { student_data,
                                                 record_session(student_data, saved, lecture) }
                          /\ resp' = [echo EXCEPT !.status = 500,
                                                  !.detail = "Internal Server Error",
                                                  !.analytics_notified = TRUE]
                     ELSE /\ student_data' = IF notified
                                             THEN record_session(student_data, saved, lecture)
                                             ELSE student_data
                          /\ resp' = [echo EXCEPT !.status = 200,
                                          !.correct = is_correct,
                                          !.correct_answer = correct_answer_text,
                                          !.finished = finished,
                                          !.score = Score(stepped),
                                          !.next_question = next_q,
                                          !.current_difficulty = Some(stepped.current_difficulty),
                                          !.analytics_notified = notified]
        /\ UNCHANGED <<analytics_fault, limits, LECTURES, issued, proctoring>>

\* answer_question (router)
answer_question(lecture_id, req) ==
    IF lecture_id \notin DOMAIN LECTURES
    THEN /\ resp' = HTTPException("answer_question", 404, "Lecture not found.")
         /\ UNCHANGED <<analytics_fault, limits, LECTURES, SESSIONS, issued, proctoring, student_data>>
    ELSE IF \/ req.session_id \notin DOMAIN SESSIONS
            \/ SESSIONS[req.session_id].lecture_id # lecture_id
    THEN /\ resp' = HTTPException("answer_question", 404,
                                  "Session not found for this lecture.")
         /\ UNCHANGED <<analytics_fault, limits, LECTURES, SESSIONS, issued, proctoring, student_data>>
    ELSE IF get_question_by_id(LECTURES[lecture_id], req.question_id) = None
    THEN /\ resp' = [HTTPException("answer_question", 404, "Question not found in lecture.")
                        EXCEPT !.session_id = req.session_id,
                               !.question_id = req.question_id]
         /\ UNCHANGED <<analytics_fault, limits, LECTURES, SESSIONS, issued, proctoring, student_data>>
    ELSE LET lecture == LECTURES[lecture_id]
             session == SESSIONS[req.session_id]
             question == get_question_by_id(lecture, req.question_id)[1]
             echo == [NoResponse EXCEPT !.op = "answer_question",
                                        !.session_id = req.session_id,
                                        !.question_id = req.question_id]
             echo_mcq == [echo EXCEPT !.selected_option_index = req.selected_option_index]
             echo_text == [echo EXCEPT !.learner_answer = req.learner_answer]
         IN  IF question.type = "mcq"
             THEN IF req.selected_option_index = None
                  THEN /\ resp' = [echo_mcq EXCEPT !.status = 400,
                              !.detail = "selected_option_index is required for MCQ questions."]
                       /\ UNCHANGED <<analytics_fault, limits, LECTURES, SESSIONS, issued, proctoring, student_data>>
                  ELSE IF IndexOutOfRange(question, req.selected_option_index[1])
                  THEN /\ resp' = [echo_mcq EXCEPT !.status = 400,
                              !.detail = "selected_option_index is out of range."]
                       /\ UNCHANGED <<analytics_fault, limits, LECTURES, SESSIONS, issued, proctoring, student_data>>
                  ELSE RecordAnswer(session, lecture, question, echo_mcq,
                           PyIndex(question.options[1], req.selected_option_index[1]).is_correct,
                           CorrectAnswerText(question))
             ELSE RecordAnswer(session, lecture, question, echo_text,
                      normalize_text(req.learner_answer) = normalize_text(question.answer),
                      question.answer)

\* api_answer_exam (app/main.py): grades an mcq by the text of the chosen
\* option, records the answer and steps the difficulty on the same stores;
\* it neither stamps completed_at nor notifies the analytics engine
api_answer_exam(session_id, question_id, student_answer) ==
    /\ IF session_id \notin DOMAIN SESSIONS
       THEN /\ resp' = HTTPException("api_answer_exam", 404, "Session not found.")
            /\ UNCHANGED <<analytics_fault, limits, LECTURES, SESSIONS, issued, proctoring, student_data>>
       ELSE IF SESSIONS[session_id].lecture_id \notin DOMAIN LECTURES
       THEN /\ resp' = HTTPException("api_answer_exam", 404, "Lecture not found.")
            /\ UNCHANGED <<analytics_fault, limits, LECTURES, SESSIONS, issued, proctoring, student_data>>
       ELSE IF get_question_by_id(LECTURES[SESSIONS[session_id].lecture_id], question_id) = None
       THEN /\ resp' = [HTTPException("api_answer_exam", 404, "Question not found in lecture.")
                           EXCEPT !.session_id = session_id, !.question_id = question_id]
            /\ UNCHANGED <<analytics_fault, limits, LECTURES, SESSIONS, issued, proctoring, student_data>>
       ELSE LET session == SESSIONS[session_id]
                lecture == LECTURES[session.lecture_id]
                question == get_question_by_id(lecture, question_id)[1]
                chosen == normalize_text(student_answer)
                opts == OptionsOrEmpty(question)
                is_correct ==
                    IF question.type = "mcq"
                    THEN \E i \in 1..Len(opts) :
                            opts[i].is_correct /\ normalize_text(Some(opts[i].text)) = chosen
                    ELSE normalize_text(student_answer) = normalize_text(question.answer)
                correct_answer_text ==
                    IF question.type = "mcq" THEN CorrectAnswerText(question)
                    ELSE question.answer
                counted == UpdateSessionStats(session, question, is_correct)
                stepped == update_difficulty(counted)
                next_q == select_next_question(lecture, stepped)
                finished == next_q = None
            IN  /\ TotalAnswers < limits.answers
                /\ SESSIONS' = [SESSIONS EXCEPT ![session_id] = stepped]
                /\ resp' = [NoResponse EXCEPT !.op = "api_answer_exam", !.status = 200,
                                              !.session_id = session_id,
                                              !.question_id = question_id,
                                              !.correct = is_correct,
                                              !.correct_answer = correct_answer_text,
                                              !.finished = finished,
                                              !.score = Score(stepped),
                                              !.next_question = next_q]
                /\ UNCHANGED <<analytics_fault, limits, LECTURES, issued, proctoring, student_data>>

\* ------------------------------------------------------------------------
\* Results
\* ------------------------------------------------------------------------
\* get_session_results reads the stores and changes nothing: the status and
\* detail of its response in the current state
get_session_results(session_id) ==
    IF session_id \notin DOMAIN SESSIONS
    THEN [status |-> 404, detail |-> "Session not found"]
    ELSE IF SESSIONS[session_id].completed_at = None
    THEN [status |-> 400, detail |-> "Exam not yet completed"]
    ELSE IF SESSIONS[session_id].lecture_id \notin DOMAIN LECTURES
    THEN [status |-> 404, detail |-> "Lecture not found"]
    ELSE IF \E i \in DOMAIN SESSIONS[session_id].answers :
               get_question_by_id(LECTURES[SESSIONS[session_id].lecture_id],
                                  SESSIONS[session_id].answers[i].question_id) = None
    THEN [status |-> 404, detail |-> "Question not found in lecture."]
    ELSE [status |-> 200, detail |-> ""]

\* ------------------------------------------------------------------------
\* Proctoring
\* ------------------------------------------------------------------------
risk_thresholds ==
    [t \in EventTypes |->
        CASE t = "tab_switch" -> 3
          [] t = "face_not_detected" -> 5
          [] t = "multiple_faces" -> 1
          [] t = "suspicious_object" -> 2]

RECURSIVE SumOver(_, _)
SumOver(f, S) ==
    IF S = {} THEN 0 ELSE LET x == CHOOSE y \in S : TRUE IN f[x] + SumOver(f, S \ {x})

\* ProctoringEngine._assess_risk_level; the score is kept doubled so that
\* count * 0.5 stays an integer: risk_score < 5 is doubled score < 10
assess_risk_level(flags) ==
    LET doubled == [t \in EventTypes |->
                       IF flags[t] > risk_thresholds[t]
                       THEN (flags[t] - risk_thresholds[t]) * 4
                       ELSE flags[t]]
        risk_score2 == SumOver(doubled, EventTypes)
    IN  IF risk_score2 < 10 THEN "low"
        ELSE IF risk_score2 < 20 THEN "medium"
        ELSE "high"

\* ProctoringEngine.log_proctoring_event on the engine's sessions
engine_log_proctoring_event(sessions, event) ==
    IF event.session_id \notin DOMAIN sessions THEN sessions
    ELSE LET s == sessions[event.session_id]
             flags == IF event.event_type \in DOMAIN s.flags
                      THEN [s.flags EXCEPT ![event.event_type] = @ + 1]
                      ELSE s.flags
         IN  [sessions EXCEPT ![event.session_id] =
                 [events |-> Append(s.events, event.event_type),
                  flags |-> flags,
                  risk_level |-> assess_risk_level(flags)]]

TotalEvents == LET RECURSIVE Sum(_)
                   Sum(n) == IF n = 0 THEN 0
                             ELSE Len(SESSIONS[n].proctoring_flags) + Sum(n - 1)
               IN  Sum(Len(SESSIONS))

\* log_proctoring_event (router, the first handler registered for
\* POST /proctoring/{session_id}/event; the later handler of the same path
\* is shadowed by it)
log_proctoring_event(session_id, event) ==
    /\ IF session_id \notin DOMAIN SESSIONS
       THEN /\ resp' = HTTPException("log_proctoring_event", 404, "Session not found.")
            /\ UNCHANGED <<analytics_fault, limits, LECTURES, SESSIONS, issued, proctoring, student_data>>
       ELSE /\ TotalEvents < limits.events
            /\ proctoring' = engine_log_proctoring_event(proctoring, event)
            /\ SESSIONS' = [SESSIONS EXCEPT ![session_id].proctoring_flags =
                                Append(@, event.event_type)]
            /\ resp' = [NoResponse EXCEPT !.op = "log_proctoring_event", !.status = 200,
                                          !.session_id = session_id]
            /\ UNCHANGED <<analytics_fault, limits, LECTURES, issued, student_data>>

\* ------------------------------------------------------------------------
\* Inputs
\* ------------------------------------------------------------------------
Learners == { "u1" }
LearnerInputs == { None } \cup { Some(l) : l \in Learners }
LectureIdInputs == 0..MaxLectures
SessionIdInputs == 0..MaxSessions
QuestionIdInputs == 0..issued
IndexInputs == { None } \cup { Some(i) : i \in -1..2 }
TextInputs == { Some(S_pad_A), Some(S_b) }
EventTypeInputs == { "tab_switch", "screen_capture" }

\* a submission carries an option index, a text, or neither
Submissions ==
    { [selected_option_index |-> i, learner_answer |-> None] : i \in IndexInputs }
    \cup { [selected_option_index |-> None, learner_answer |-> t] : t \in TextInputs }

NoSubmission == [selected_option_index |-> None, learner_answer |-> None]

\* The calls of answer_question that are tried: well-addressed ones with
\* every submission, and ill-addressed ones (a question id the lecture does
\* not have, a session or lecture id that does not match) one fault at a time.
AnswerCalls ==
    LET CatalogIds(s) == QuestionIds(LECTURES[SESSIONS[s].lecture_id])
        SubmissionsFor(s, q) == IF q \in CatalogIds(s) THEN Submissions ELSE { NoSubmission }
    IN  UNION { UNION { { << SESSIONS[s].lecture_id,
                             AnswerQuestionRequest(s, q, x.learner_answer,
                                                   x.selected_option_index) >> :
                           x \in SubmissionsFor(s, q) } :
                        q \in QuestionIdInputs } :
                s \in DOMAIN SESSIONS }
        \cup
        { << l, AnswerQuestionRequest(s, 0, None, None) >> :
            l \in LectureIdInputs, s \in SessionIdInputs }

\* The calls of api_answer_exam that are tried, in the same way
ApiAnswerCalls ==
    LET CatalogIds(s) == QuestionIds(LECTURES[SESSIONS[s].lecture_id])
        TextsFor(s, q) == IF q \in CatalogIds(s) THEN { None } \cup TextInputs ELSE { None }
    IN  UNION { UNION { { << s, q, t >> : t \in TextsFor(s, q) } :
                        q \in QuestionIdInputs } :
                s \in DOMAIN SESSIONS }
        \cup { << s, 0, None >> : s \in SessionIdInputs }

Next ==
    \/ create_lecture_from_text
    \/ \E l \in LectureIdInputs, g \in GenOutputs : generate_questions_for_lecture(l, g)
    \/ \E l \in LectureIdInputs, u \in LearnerInputs : start_session(l, u)
    \/ \E l \in LectureIdInputs, u \in Learners : api_start_exam(l, u)
    \/ \E c \in AnswerCalls : answer_question(c[1], c[2])
    \/ \E c \in ApiAnswerCalls : api_answer_exam(c[1], c[2], c[3])
    \/ \E s \in SessionIdInputs, t \in EventTypeInputs :
          log_proctoring_event(s, [session_id |-> s, event_type |-> t])

Spec == Init /\ [][Next]_vars

SpecAnalyticsFault == InitAnalyticsFault /\ [][Next]_vars

\* ------------------------------------------------------------------------
\* update_difficulty on its own: a session with any answer history of at
\* most MaxHistory records and any of the three levels, and the step applied
\* to it
\* ------------------------------------------------------------------------
Histories == UNION { [1..n -> BOOLEAN] : n \in 0..MaxHistory }

SessionWithHistory(h, d) ==
    [TestSession(1, 1, None) EXCEPT
        !.current_difficulty = d,
        !.answers = [i \in 1..Len(h) |-> AnswerRecord(i, h[i], "medium")],
        !.total_answered = Len(h),
        !.correct_count = Cardinality({ i \in 1..Len(h) : h[i] })]

InitDifficulty ==
    /\ LECTURES = << >>
    /\ SESSIONS \in { << SessionWithHistory(h, d) >> :
                          h \in Histories, d \in { "easy", "medium", "hard" } }
    /\ issued = 0
    /\ proctoring = << >>
    /\ student_data = [l \in { "u1" } |-> << >>]
    /\ resp = NoResponse
    /\ analytics_fault = FALSE
    /\ limits = BaseLimits

\* update_difficulty(session), the session being mutated in place
difficulty_step ==
    /\ SESSIONS' = [SESSIONS EXCEPT ![1] = update_difficulty(SESSIONS[1])]
    /\ resp' = [NoResponse EXCEPT !.op = "update_difficulty", !.session_id = 1,
                                  !.current_difficulty = Some(SESSIONS'[1].current_difficulty)]
    /\ UNCHANGED <<analytics_fault, limits, LECTURES, issued, proctoring, student_data>>

SpecDifficulty == InitDifficulty /\ [][difficulty_step]_vars

\* ------------------------------------------------------------------------
\* Text answers on their own: a session started on a catalog of one
\* fill_blank or short_answer question, and answer_question called with
\* texts that differ in padding and in case
\* ------------------------------------------------------------------------
CanonicalTexts ==
    { None, Some(S_empty), Some(<< "A" >>), Some(<< "a", " " >>),
      Some(<< "ß" >>), Some(<< "s", "s" >>) }

SubmittedTexts ==
    { None, Some(<< " " >>), Some(S_pad_A), Some(S_a), Some(<< "a", "a" >>),
      Some(<< "S", "S" >>), Some(<< "ß" >>) }

InitText ==
    /\ \E type \in { "fill_blank", "short_answer" }, answer \in CanonicalTexts :
          LECTURES = << [Lecture(1) EXCEPT !.questions =
                           << GeneratedQuestion(1, QuestionData(type, None, answer, "medium")) >>] >>
    /\ SESSIONS = << TestSession(1, 1, None) >>
    /\ issued = 1
    /\ proctoring = (1 :> ProctoringSession)
    /\ student_data = [l \in { "u1" } |-> << >>]
    /\ resp = [NoResponse EXCEPT !.op = "start_session", !.status = 200,
                                 !.lecture_id = 1, !.session_id = 1,
                                 !.question = Some(LECTURES[1].questions[1])]
    /\ analytics_fault = FALSE
    /\ limits = BaseLimits

NextText ==
    \E text \in SubmittedTexts : answer_question(1, AnswerQuestionRequest(1, 1, text, None))

SpecText == InitText /\ [][NextText]_vars

\* ------------------------------------------------------------------------
\* Two sessions side by side on the same lecture, through both pairs of
\* entry points; the catalog is generated before the first session starts
\* ------------------------------------------------------------------------
MaxSessionsIsolation == 2

InitIsolation ==
    /\ LECTURES = << >>
    /\ SESSIONS = << >>
    /\ issued = 0
    /\ proctoring = << >>
    /\ student_data = [l \in { "u1" } |-> << >>]
    /\ resp = NoResponse
    /\ analytics_fault = FALSE
    /\ limits = Limits(MaxSessionsIsolation, MaxTotalAnswers, MaxEvents)

\* the submissions tried on two sessions: both options of an mcq, a text
IsolationSubmissions ==
    { [selected_option_index |-> Some(i), learner_answer |-> None] : i \in 0..1 }
    \cup { [selected_option_index |-> None, learner_answer |-> Some(S_pad_A)] }

NextIsolation ==
    \/ create_lecture_from_text
    \/ /\ SESSIONS = << >>
       /\ \E l \in LectureIdInputs, g \in { G_EasyMedium, G_Single } :
             generate_questions_for_lecture(l, g)
    \/ \E l \in LectureIdInputs, u \in LearnerInputs : start_session(l, u)
    \/ \E l \in LectureIdInputs, u \in Learners : api_start_exam(l, u)
    \/ \E s \in DOMAIN SESSIONS, q \in QuestionIdInputs, x \in IsolationSubmissions :
          answer_question(SESSIONS[s].lecture_id,
                          AnswerQuestionRequest(s, q, x.learner_answer, x.selected_option_index))
    \/ \E s \in DOMAIN SESSIONS, q \in QuestionIdInputs, t \in TextInputs :
          api_answer_exam(s, q, t)
    \/ \E s \in DOMAIN SESSIONS :
          log_proctoring_event(s, [session_id |-> s, event_type |-> "tab_switch"])

SpecIsolation == InitIsolation /\ [][NextIsolation]_vars

\* ------------------------------------------------------------------------
\* One started session and the proctoring events logged for it
\* ------------------------------------------------------------------------
MaxEventsProctoring == 9

InitProctoring ==
    /\ LECTURES = << [Lecture(1) EXCEPT !.questions = << GeneratedQuestion(1, D_mcq_hard) >>] >>
    /\ SESSIONS = << TestSession(1, 1, None) >>
    /\ issued = 1
    /\ proctoring = (1 :> ProctoringSession)
    /\ student_data = [l \in { "u1" } |-> << >>]
    /\ resp = [NoResponse EXCEPT !.op = "start_session", !.status = 200,
                                 !.lecture_id = 1, !.session_id = 1,
                                 !.question = Some(LECTURES[1].questions[1])]
    /\ analytics_fault = FALSE
    /\ limits = Limits(MaxSessions, MaxTotalAnswers, MaxEventsProctoring)

NextProctoring ==
    \E t \in EventTypes : log_proctoring_event(1, [session_id |-> 1, event_type |-> t])

SpecProctoring == InitProctoring /\ [][NextProctoring]_vars

\* ------------------------------------------------------------------------
\* A session driven by a client that follows the protocol: the catalog is
\* generated before the session starts and left alone afterwards, and every
\* call after the start answers the question the last response returned
\* with a submission the handler accepts.
\* ------------------------------------------------------------------------
MaxAnswersWellBehaved == 3

\* catalogs in which every mcq has options
WellFormedCatalogs == { G_ScenarioA, G_EasyMedium, G_Single }

InitWellBehaved ==
    /\ LECTURES = << >>
    /\ SESSIONS = << >>
    /\ issued = 0
    /\ proctoring = << >>
    /\ student_data = [l \in { "u1" } |-> << >>]
    /\ resp = NoResponse
    /\ analytics_fault = FALSE
    /\ limits = Limits(MaxSessions, MaxAnswersWellBehaved, MaxEvents)

\* the submissions answer_question accepts for a question: an index into
\* the options of an mcq, a text (right or wrong) for the other types
ValidSubmissions(question) ==
    IF question.type = "mcq"
    THEN { [selected_option_index |-> Some(i), learner_answer |-> None] :
             i \in 0..(Len(OptionsOrEmpty(question)) - 1) }
    ELSE { [selected_option_index |-> None, learner_answer |-> t] :
             t \in TextInputs \cup { question.answer } }

\* the question the last response handed to the client, if any
ReturnedQuestion ==
    IF resp.status # 200 THEN None
    ELSE IF resp.op = "start_session" THEN resp.question
    ELSE IF resp.op = "answer_question" THEN resp.next_question
    ELSE None

answer_returned_question ==
    /\ ReturnedQuestion # None
    /\ LET question == ReturnedQuestion[1]
           session == SESSIONS[resp.session_id]
       IN  \E x \in ValidSubmissions(question) :
              answer_question(session.lecture_id,
                              AnswerQuestionRequest(session.id, question.id,
                                                    x.learner_answer, x.selected_option_index))

NextWellBehaved ==
    \/ /\ SESSIONS = << >>
       /\ create_lecture_from_text
    \/ /\ SESSIONS = << >>
       /\ \E l \in LectureIdInputs, g \in WellFormedCatalogs : generate_questions_for_lecture(l, g)
    \/ /\ SESSIONS = << >>
       /\ \E l \in LectureIdInputs, u \in LearnerInputs : start_session(l, u)
    \/ answer_returned_question

\* the client keeps answering as long as a question is outstanding
SpecWellBehaved ==
    InitWellBehaved /\ [][NextWellBehaved]_vars /\ WF_vars(answer_returned_question)

\* ------------------------------------------------------------------------
\* Properties
\* ------------------------------------------------------------------------
StartOps == { "start_session", "api_start_exam" }
AnswerOps == { "answer_question", "api_answer_exam" }

LectureOf(session) == LECTURES[session.lecture_id]

\* C1: in every reachable state, every session's total_answered is the
\* length of its answers list and its correct_count is the number of answer
\* records flagged is_correct.
C1_CountersMatchAnswers ==
    \A s \in DOMAIN SESSIONS :
        /\ SESSIONS[s].total_answered = Len(SESSIONS[s].answers)
        /\ SESSIONS[s].correct_count =
              Cardinality({ i \in 1..Len(SESSIONS[s].answers) : SESSIONS[s].answers[i].is_correct })

\* a session with a correct and an incorrect answer, after a rejected call
C1_Witness ==
    /\ resp.status = 400
    /\ \E s \in DOMAIN SESSIONS :
          /\ Len(SESSIONS[s].answers) = 2
          /\ SESSIONS[s].correct_count = 1

\* C2: no question id appears in more than one AnswerRecord of a session.
C2_NoQuestionAnsweredTwice ==
    \A s \in DOMAIN SESSIONS :
        \A i, j \in 1..Len(SESSIONS[s].answers) :
            i # j => SESSIONS[s].answers[i].question_id # SESSIONS[s].answers[j].question_id

\* C3: a submit-answer call on a session whose completion timestamp is set
\* is rejected, never evaluated (a rejection answers with a status other
\* than 200).
C3_SubmitToCompleteRejected ==
    [][ \A s \in DOMAIN SESSIONS :
            ( /\ SESSIONS[s].completed_at # None
              /\ resp'.op \in AnswerOps
              /\ resp'.session_id = s )
            => resp'.status # 200 ]_vars

\* C4: once a session's completion timestamp is set, no later step changes
\* its answers, correct_count, total_answered, current_difficulty or the
\* timestamp (only proctoring_flags may still change).
C4_CompleteIsTerminal ==
    [][ \A s \in DOMAIN SESSIONS :
            SESSIONS[s].completed_at # None =>
                LET before == SESSIONS[s]
                    after == SESSIONS'[s]
                IN  /\ after.answers = before.answers
                    /\ after.correct_count = before.correct_count
                    /\ after.total_answered = before.total_answered
                    /\ after.current_difficulty = before.current_difficulty
                    /\ after.completed_at = before.completed_at ]_vars

\* C5: after an accepted answer_question call, the session is COMPLETE
\* exactly when the selector finds no next question: then completed_at is
\* set, finished is true and no next question is returned; otherwise
\* completed_at is unset, finished is false and the selector's question is
\* returned.
C5_CompleteIffNoNextQuestion ==
    (resp.op = "answer_question" /\ resp.status = 200) =>
        LET session == SESSIONS[resp.session_id]
            next_q == select_next_question(LectureOf(session), session)
        IN  IF next_q = None
            THEN /\ session.completed_at # None
                 /\ resp.finished
                 /\ resp.next_question = None
            ELSE /\ session.completed_at = None
                 /\ ~resp.finished
                 /\ resp.next_question = next_q

\* C6: for every catalog and session, the selector returns None if and only
\* if every question of the catalog has an AnswerRecord in the session.
C6_SelectorNoneIffExhausted ==
    \A l \in DOMAIN LECTURES, s \in DOMAIN SESSIONS :
        (select_next_question(LECTURES[l], SESSIONS[s]) = None)
        <=> (\A i \in 1..Len(LECTURES[l].questions) :
                \E k \in 1..Len(SESSIONS[s].answers) :
                    SESSIONS[s].answers[k].question_id = LECTURES[l].questions[i].id)

\* the selector has just reported the end of a two-question catalog
C6_Witness ==
    /\ resp.op = "answer_question" /\ resp.status = 200 /\ resp.finished
    /\ Len(LectureOf(SESSIONS[resp.session_id]).questions) = 2
    /\ Len(SESSIONS[resp.session_id].answers) = 2

\* C7: a successful start appends exactly one session to the store, ACTIVE
\* with current_difficulty medium, no answers, both counters 0 and no
\* completion timestamp, and returns the first medium question in catalog
\* order, or the first question when the catalog has no medium question.
C7_StartRegistersActiveSession ==
    [][ (resp'.op \in StartOps /\ resp'.status = 200) =>
            LET n == Len(SESSIONS)
                new == SESSIONS'[n + 1]
                questions == LECTURES[resp'.lecture_id].questions
                mediums == { i \in 1..Len(questions) : questions[i].difficulty = "medium" }
                expected == IF mediums # {}
                            THEN questions[CHOOSE i \in mediums : \A j \in mediums : i <= j]
                            ELSE questions[1]
            IN  /\ Len(SESSIONS') = n + 1
                /\ SubSeq(SESSIONS', 1, n) = SESSIONS
                /\ resp'.session_id = n + 1
                /\ new.id = n + 1
                /\ new.lecture_id = resp'.lecture_id
                /\ new.current_difficulty = "medium"
                /\ new.answers = << >>
                /\ new.correct_count = 0
                /\ new.total_answered = 0
                /\ new.completed_at = None
                /\ questions # << >>
                /\ resp'.question = Some(expected) ]_vars

\* a start that returned a medium question which is not the catalog's first
C7_Witness ==
    /\ resp.op \in StartOps /\ resp.status = 200
    /\ resp.question[1].difficulty = "medium"
    /\ resp.question[1].id # LECTURES[resp.lecture_id].questions[1].id

NoQuestionsAvailable ==
    { "Lecture not found or no questions generated yet.", "No questions available." }

\* C8: a start on a lecture whose catalog is empty, or yields no question
\* for a new session, fails with status 400 and leaves the session store
\* (and the other stores) as they were.
C8_StartOnEmptyCatalogFails ==
    [][ ( /\ resp'.op \in StartOps
          /\ resp'.lecture_id \in DOMAIN LECTURES
          /\ \/ LECTURES[resp'.lecture_id].questions = << >>
             \/ select_next_question(LECTURES[resp'.lecture_id],
                                     TestSession(0, resp'.lecture_id, None)) = None )
        => /\ resp'.status = 400
           /\ resp'.detail \in NoQuestionsAvailable
           /\ SESSIONS' = SESSIONS
           /\ proctoring' = proctoring
           /\ student_data' = student_data
           /\ LECTURES' = LECTURES ]_vars

\* a start was refused on an existing lecture whose catalog is empty
C8_Witness ==
    /\ resp.op \in StartOps /\ resp.status = 400
    /\ resp.lecture_id \in DOMAIN LECTURES
    /\ LECTURES[resp.lecture_id].questions = << >>

InvalidSubmission ==
    { "selected_option_index is required for MCQ questions.",
      "selected_option_index is out of range." }

\* C9: an answer_question call that reaches an mcq question with a selected
\* option index that is absent, negative or not below the number of options
\* fails with status 400 and changes no session and no analytics record.
C9_BadOptionIndexRejected ==
    [][ ( /\ resp'.op = "answer_question"
          /\ resp'.session_id \in DOMAIN SESSIONS
          /\ LET hits == SelectSeq(LectureOf(SESSIONS[resp'.session_id]).questions,
                                   LAMBDA q : q.id = resp'.question_id)
                 index == resp'.selected_option_index
             IN  /\ hits # << >>
                 /\ hits[1].type = "mcq"
                 /\ \/ index = None
                    \/ index[1] < 0
                    \/ index[1] >= (IF hits[1].options = None THEN 0
                                    ELSE Len(hits[1].options[1])) )
        => /\ resp'.status = 400
           /\ resp'.detail \in InvalidSubmission
           /\ SESSIONS' = SESSIONS
           /\ student_data' = student_data ]_vars

\* index 2 was refused for a two-option mcq on a session that has an answer
C9_Witness ==
    /\ resp.op = "answer_question" /\ resp.status = 400
    /\ resp.selected_option_index = Some(2)
    /\ SESSIONS[resp.session_id].total_answered = 1

\* C10: a submit-answer call that reaches a session and names a question id
\* which is not in the catalog of the session's lecture fails with 404
\* "Question not found in lecture." and changes no session.
C10_UnknownQuestionRejected ==
    [][ ( /\ resp'.op \in AnswerOps
          /\ resp'.session_id \in DOMAIN SESSIONS
          /\ \A i \in 1..Len(LectureOf(SESSIONS[resp'.session_id]).questions) :
                LectureOf(SESSIONS[resp'.session_id]).questions[i].id # resp'.question_id )
        => /\ resp'.status = 404
           /\ resp'.detail = "Question not found in lecture."
           /\ SESSIONS' = SESSIONS
           /\ student_data' = student_data ]_vars

\* a question id of a replaced catalog was refused on a session with an answer
C10_Witness ==
    /\ resp.op \in AnswerOps /\ resp.status = 404
    /\ resp.detail = "Question not found in lecture."
    /\ resp.question_id # 0
    /\ SESSIONS[resp.session_id].total_answered >= 1

\* C11: an answer_question call that reaches an mcq question whose option
\* list is missing or empty does not fail: the submission is graded
\* incorrect and one AnswerRecord is appended to the session.
C11_McqWithoutOptionsGradedIncorrect ==
    [][ ( /\ resp'.op = "answer_question"
          /\ resp'.session_id \in DOMAIN SESSIONS
          /\ LET hits == SelectSeq(LectureOf(SESSIONS[resp'.session_id]).questions,
                                   LAMBDA q : q.id = resp'.question_id)
             IN  /\ hits # << >>
                 /\ hits[1].type = "mcq"
                 /\ OptionsOrEmpty(hits[1]) = << >> )
        => /\ resp'.status = 200
           /\ ~resp'.correct
           /\ Len(SESSIONS'[resp'.session_id].answers)
                 = Len(SESSIONS[resp'.session_id].answers) + 1 ]_vars

\* C12: an answer_question call that reaches an mcq question with at least
\* one option, none of them flagged is_correct, with an index in range is
\* answered with status 200, graded incorrect, and reports the question's
\* stored answer field as the correct answer.
C12_NoFlaggedOptionGradedIncorrect ==
    [][ ( /\ resp'.op = "answer_question"
          /\ resp'.session_id \in DOMAIN SESSIONS
          /\ LET hits == SelectSeq(LectureOf(SESSIONS[resp'.session_id]).questions,
                                   LAMBDA q : q.id = resp'.question_id)
                 index == resp'.selected_option_index
             IN  /\ hits # << >>
                 /\ hits[1].type = "mcq"
                 /\ OptionsOrEmpty(hits[1]) # << >>
                 /\ \A i \in 1..Len(OptionsOrEmpty(hits[1])) :
                        ~OptionsOrEmpty(hits[1])[i].is_correct
                 /\ index # None
                 /\ index[1] >= 0
                 /\ index[1] < Len(OptionsOrEmpty(hits[1])) )
        => LET question == SelectSeq(LectureOf(SESSIONS[resp'.session_id]).questions,
                                     LAMBDA q : q.id = resp'.question_id)[1]
           IN  /\ resp'.status = 200
               /\ ~resp'.correct
               /\ resp'.correct_answer = question.answer ]_vars

\* option 1 of the mcq without a flagged option was submitted and graded
C12_Witness ==
    /\ resp.op = "answer_question" /\ resp.status = 200
    /\ resp.selected_option_index = Some(1)
    /\ ~resp.correct
    /\ \E i \in 1..Len(LectureOf(SESSIONS[resp.session_id]).questions) :
          LET q == LectureOf(SESSIONS[resp.session_id]).questions[i]
          IN  q.id = resp.question_id /\ q.options = Some(OptsNoneFlagged)

\* C13: for an mcq question with several options flagged is_correct, an
\* in-range submission is graded correct if and only if it selects the first
\* flagged option in list order, and the correct answer reported is that
\* option's text.
C13_FirstFlaggedOptionDecides ==
    [][ ( /\ resp'.op = "answer_question"
          /\ resp'.status = 200
          /\ resp'.selected_option_index # None
          /\ LET question == SelectSeq(LectureOf(SESSIONS[resp'.session_id]).questions,
                                       LAMBDA q : q.id = resp'.question_id)[1]
                 options == OptionsOrEmpty(question)
             IN  Cardinality({ i \in 1..Len(options) : options[i].is_correct }) >= 2 )
        => LET question == SelectSeq(LectureOf(SESSIONS[resp'.session_id]).questions,
                                     LAMBDA q : q.id = resp'.question_id)[1]
               options == OptionsOrEmpty(question)
               first == CHOOSE i \in 1..Len(options) :
                            /\ options[i].is_correct
                            /\ \A j \in 1..(i - 1) : ~options[j].is_correct
           IN  /\ resp'.correct <=> (resp'.selected_option_index[1] = first - 1)
               /\ resp'.correct_answer = Some(options[first].text) ]_vars

\* C14: an answer_question call that reaches an mcq question with an index
\* in range is graded correct if and only if the selected option's
\* is_correct flag is true, and the correct answer reported is the text of
\* the first option flagged is_correct.
C14_SelectedOptionFlagDecides ==
    [][ ( /\ resp'.op = "answer_question"
          /\ resp'.session_id \in DOMAIN SESSIONS
          /\ LET hits == SelectSeq(LectureOf(SESSIONS[resp'.session_id]).questions,
                                   LAMBDA q : q.id = resp'.question_id)
                 index == resp'.selected_option_index
             IN  /\ hits # << >>
                 /\ hits[1].type = "mcq"
                 /\ index # None
                 /\ index[1] >= 0
                 /\ index[1] < Len(OptionsOrEmpty(hits[1])) )
        => LET question == SelectSeq(LectureOf(SESSIONS[resp'.session_id]).questions,
                                     LAMBDA q : q.id = resp'.question_id)[1]
               options == OptionsOrEmpty(question)
               flagged == { i \in 1..Len(options) : options[i].is_correct }
           IN  /\ resp'.status = 200
               /\ resp'.correct <=> options[resp'.selected_option_index[1] + 1].is_correct
               /\ flagged # {} =>
                     resp'.correct_answer =
                        Some(options[CHOOSE i \in flagged : \A j \in flagged : i <= j].text) ]_vars

\* the second of two flagged options was selected and graded correct, the
\* text reported being the first flagged option's
C14_Witness ==
    /\ resp.op = "answer_question" /\ resp.status = 200
    /\ resp.selected_option_index = Some(2)
    /\ resp.correct
    /\ resp.correct_answer = Some(S_a)

\* C15: when record_session raises while answer_question completes a
\* session, the call still returns its normal result (status 200, finished,
\* the final score) and the session stays COMPLETE with the answer recorded.
C15_AnalyticsFailureNotPropagated ==
    [][ \A s \in DOMAIN SESSIONS :
            ( /\ resp'.op = "answer_question"
              /\ resp'.session_id = s
              /\ Len(SESSIONS'[s].answers) = Len(SESSIONS[s].answers) + 1
              /\ select_next_question(LectureOf(SESSIONS'[s]), SESSIONS'[s]) = None )
            => /\ resp'.status = 200
               /\ resp'.finished
               /\ resp'.score = Score(SESSIONS'[s])
               /\ SESSIONS'[s].completed_at # None ]_vars

\* C16: every step that takes a session to COMPLETE (stamps a completion
\* timestamp on a session that had none) calls the analytics engine's
\* record_session for it, whether or not the session has a learner id.
C16_CompletionNotifiesAnalytics ==
    [][ \A s \in DOMAIN SESSIONS :
            (SESSIONS[s].completed_at = None /\ SESSIONS'[s].completed_at # None)
            => (resp'.session_id = s /\ resp'.analytics_notified) ]_vars

\* C17: handlers run one at a time on the event loop (answer_question and
\* api_answer_exam contain no await), so whatever calls came before, every
\* accepted submit call adds exactly one record, its own, to the answers the
\* session had, and raises total_answered by one and correct_count by one
\* exactly when the answer was correct; no other session changes.
C17_NoLostUpdate ==
    [][ \A s \in DOMAIN SESSIONS :
            (resp'.op \in AnswerOps /\ resp'.status = 200 /\ resp'.session_id = s)
            => LET before == SESSIONS[s]
                   after == SESSIONS'[s]
                   n == Len(before.answers)
               IN  /\ Len(after.answers) = n + 1
                   /\ SubSeq(after.answers, 1, n) = before.answers
                   /\ after.answers[n + 1].question_id = resp'.question_id
                   /\ after.answers[n + 1].is_correct = resp'.correct
                   /\ after.total_answered = before.total_answered + 1
                   /\ after.correct_count =
                         before.correct_count + (IF resp'.correct THEN 1 ELSE 0)
                   /\ \A t \in DOMAIN SESSIONS \ { s } : SESSIONS'[t] = SESSIONS[t] ]_vars

\* two submissions of the same question on one session were both accepted
\* and both are in the session's answers
C17_Witness ==
    /\ resp.op \in AnswerOps /\ resp.status = 200
    /\ LET session == SESSIONS[resp.session_id]
       IN  /\ Len(session.answers) = 2
           /\ session.total_answered = 2
           /\ session.answers[1].question_id = session.answers[2].question_id

\* C18: a session is taken to COMPLETE at most once: once its completion
\* timestamp is set, no later step stamps it again or adds another analytics
\* entry for the session.
C18_CompletedAtMostOnce ==
    [][ \A s \in DOMAIN SESSIONS :
            SESSIONS[s].completed_at # None
            => /\ SESSIONS'[s].completed_at = SESSIONS[s].completed_at
               /\ \A l \in DOMAIN student_data :
                     Len(SelectSeq(student_data'[l], LAMBDA e : e.session_id = s))
                       = Len(SelectSeq(student_data[l], LAMBDA e : e.session_id = s)) ]_vars

\* C19: while a session on a lecture exists, no step changes the ordered
\* list of question ids of that lecture's catalog.
C19_CatalogImmutableUnderSessions ==
    [][ \A l \in DOMAIN LECTURES :
            (\E s \in DOMAIN SESSIONS : SESSIONS[s].lecture_id = l)
            => [i \in 1..Len(LECTURES'[l].questions) |-> LECTURES'[l].questions[i].id]
                 = [i \in 1..Len(LECTURES[l].questions) |-> LECTURES[l].questions[i].id] ]_vars

\* C20: in every reachable state every session's current_difficulty is
\* easy, medium or hard.
C20_DifficultyInRange ==
    \A s \in DOMAIN SESSIONS :
        SESSIONS[s].current_difficulty \in { "easy", "medium", "hard" }

\* a session promoted to hard that answered correctly once more
C20_Witness ==
    \E s \in DOMAIN SESSIONS :
        /\ SESSIONS[s].current_difficulty = "hard"
        /\ SESSIONS[s].correct_count = 2

\* C21: in every reachable state the running score of every session is
\* correct_count / total_answered, exactly 0 when nothing was answered, and
\* lies in [0, 1], that is 0 <= correct_count <= total_answered; the score
\* in the response of an accepted submit is that running score.
C21_ScoreInUnitInterval ==
    /\ \A s \in DOMAIN SESSIONS :
          LET session == SESSIONS[s]
              score == Score(session)
          IN  /\ 0 <= session.correct_count
              /\ session.correct_count <= session.total_answered
              /\ score[2] > 0
              /\ 0 <= score[1] /\ score[1] <= score[2]
              /\ session.total_answered = 0 => score[1] = 0
              /\ session.total_answered # 0 =>
                    score[1] * session.total_answered = session.correct_count * score[2]
    /\ (resp.op \in AnswerOps /\ resp.status = 200) =>
          /\ resp.score = Score(SESSIONS[resp.session_id])
          /\ 0 <= resp.score[1] /\ resp.score[1] <= resp.score[2]

\* a submit answered with the score 1/2
C21_Witness ==
    /\ resp.op \in AnswerOps /\ resp.status = 200
    /\ resp.score = << 1, 2 >>

\* C22: the difficulty step leaves the history alone and decides on the last
\* min(3, n) records and the current level only: no change on an empty
\* history; one level up when every record of the window is correct and the
\* level is not hard; otherwise one level down when at most half of the
\* window is correct and the level is not easy; otherwise no change.
C22_DifficultyStepRule ==
    [][ resp'.op = "update_difficulty" =>
            LET before == SESSIONS[1]
                after == SESSIONS'[1]
                n == Len(before.answers)
                k == IF n < 3 THEN n ELSE 3
                correct == Cardinality({ i \in (n - k + 1)..n : before.answers[i].is_correct })
                level == before.current_difficulty
                up == IF level = "easy" THEN "medium" ELSE "hard"
                down == IF level = "hard" THEN "medium" ELSE "easy"
            IN  /\ after.answers = before.answers
                /\ after.current_difficulty =
                      IF n = 0 THEN level
                      ELSE IF correct = k /\ level # "hard" THEN up
                      ELSE IF 2 * correct <= k /\ level # "easy" THEN down
                      ELSE level ]_vars

\* a wrong answer followed by three correct ones: the window leaves the wrong
\* one out and the session is at hard after the step
C22_Witness ==
    /\ resp.op = "update_difficulty"
    /\ Len(SESSIONS[1].answers) = 4
    /\ ~SESSIONS[1].answers[1].is_correct
    /\ \A i \in 2..4 : SESSIONS[1].answers[i].is_correct
    /\ SESSIONS[1].current_difficulty = "hard"

\* C23: for every catalog and session, the selector returns the question at
\* the lowest catalog position among the unanswered questions of the
\* session's current difficulty; if there is none, the one at the lowest
\* position among all unanswered questions; and never an answered question.
C23_SelectorFirstInCatalogOrder ==
    \A l \in DOMAIN LECTURES, s \in DOMAIN SESSIONS :
        LET questions == LECTURES[l].questions
            session == SESSIONS[s]
            answered == { session.answers[k].question_id : k \in 1..Len(session.answers) }
            unanswered == { i \in 1..Len(questions) : questions[i].id \notin answered }
            matching == { i \in unanswered :
                            questions[i].difficulty = session.current_difficulty }
            picked == select_next_question(LECTURES[l], session)
        IN  /\ IF matching # {}
               THEN picked = Some(questions[CHOOSE i \in matching : \A j \in matching : i <= j])
               ELSE IF unanswered # {}
               THEN picked = Some(questions[CHOOSE i \in unanswered :
                                               \A j \in unanswered : i <= j])
               ELSE picked = None
            /\ picked # None => picked[1].id \notin answered

\* a submit answered with a next question of another difficulty than the
\* session's, which is not the first question of the catalog
C23_Witness ==
    /\ resp.op = "answer_question" /\ resp.status = 200
    /\ resp.next_question # None
    /\ resp.next_question[1].difficulty # resp.current_difficulty[1]
    /\ resp.next_question[1].id # LectureOf(SESSIONS[resp.session_id]).questions[1].id

\* C24: an accepted answer_question call appends the answer, then steps the
\* difficulty, then selects: the stored difficulty is the step's result on
\* the history that holds the new answer, the next question is the
\* selector's choice for the session as stored (new answer, new difficulty),
\* and the response reports the stored difficulty.
C24_AppendStepSelectOrder ==
    [][ (resp'.op = "answer_question" /\ resp'.status = 200) =>
            LET before == SESSIONS[resp'.session_id]
                after == SESSIONS'[resp'.session_id]
                appended == [before EXCEPT !.answers = after.answers]
            IN  /\ Len(after.answers) = Len(before.answers) + 1
                /\ after.current_difficulty = update_difficulty(appended).current_difficulty
                /\ resp'.current_difficulty = Some(after.current_difficulty)
                /\ resp'.next_question = select_next_question(LectureOf(after), after) ]_vars

\* catalog [Q1 medium, Q2 easy, Q3 hard]: Q1 answered incorrectly as the
\* first answer, the session demoted to easy and Q2 returned
C24_Witness ==
    /\ resp.op = "answer_question" /\ resp.status = 200
    /\ LET session == SESSIONS[resp.session_id]
           questions == LectureOf(session).questions
       IN  /\ Len(questions) = 3
           /\ questions[1].difficulty = "medium"
           /\ questions[2].difficulty = "easy"
           /\ questions[3].difficulty = "hard"
           /\ session.answers = << AnswerRecord(questions[1].id, FALSE, "medium") >>
           /\ resp.current_difficulty = Some("easy")
           /\ resp.next_question = Some(questions[2])

\* C25: an accepted answer_question call on a fill_blank or short_answer
\* question is graded correct if and only if the submitted text, trimmed and
\* case-folded (which spells the sharp s as "ss"), equals the question's
\* stored answer after the same normalisation; the correct answer reported
\* is the stored answer.
C25_TextGradedByTrimAndCasefold ==
    [][ ( /\ resp'.op = "answer_question"
          /\ resp'.status = 200
          /\ SelectSeq(LectureOf(SESSIONS[resp'.session_id]).questions,
                       LAMBDA q : q.id = resp'.question_id)[1].type # "mcq" )
        => LET question == SelectSeq(LectureOf(SESSIONS[resp'.session_id]).questions,
                                     LAMBDA q : q.id = resp'.question_id)[1]
               TextOf(t) == IF t = None THEN S_empty ELSE t[1]
               FoldChar(c) == IF c = "ß" THEN << "s", "s" >> ELSE << LowerChar(c) >>
               RECURSIVE casefold(_)
               casefold(t) == IF t = << >> THEN << >>
                              ELSE FoldChar(Head(t)) \o casefold(Tail(t))
               normalised(t) == casefold(strip(TextOf(t)))
           IN  /\ resp'.correct <=>
                     (normalised(resp'.learner_answer) = normalised(question.answer))
               /\ resp'.correct_answer = question.answer ]_vars

\* C26: with a catalog of N >= 1 questions in which every mcq has options,
\* no regeneration, and a client that always answers the question most
\* recently returned with a valid submission, a session never holds more
\* than N answers, holds no question twice, is complete exactly when it
\* holds N answers (the submit response says finished exactly then), and
\* every started session does become complete.
C26_WellBehavedClientCompletes ==
    /\ [](\A s \in DOMAIN SESSIONS :
            LET session == SESSIONS[s]
                questions == LectureOf(session).questions
                N == Len(questions)
                answers == session.answers
            IN  /\ N >= 1
                /\ Len(answers) <= N
                /\ \A i, j \in DOMAIN answers :
                      i # j => answers[i].question_id # answers[j].question_id
                /\ \A i \in DOMAIN answers :
                      answers[i].question_id \in QuestionIds(LectureOf(session))
                /\ (session.completed_at # None) <=> (Len(answers) = N)
                /\ (resp.op = "answer_question" /\ resp.session_id = s)
                      => /\ resp.status = 200
                         /\ resp.finished <=> (Len(answers) = N))
    /\ (SESSIONS # << >>)
          ~> (\A s \in DOMAIN SESSIONS :
                 /\ SESSIONS[s].completed_at # None
                 /\ Len(SESSIONS[s].answers) = Len(LectureOf(SESSIONS[s]).questions))

\* a three-question catalog answered in full, with right and wrong answers
\* and a difficulty that moved
C26_Witness ==
    /\ resp.op = "answer_question" /\ resp.status = 200 /\ resp.finished
    /\ LET session == SESSIONS[resp.session_id]
       IN  /\ Len(LectureOf(session).questions) = 3
           /\ Len(session.answers) = 3
           /\ session.correct_count >= 1
           /\ session.total_answered - session.correct_count >= 1
           /\ session.current_difficulty # "medium"
           /\ session.completed_at # None

\* C27: a submit-answer call appends an AnswerRecord only for the question
\* most recently returned to the client for that session: when the last
\* response was an accepted start or submit of a session and the next call
\* appends a record to that session, the record is for the question that
\* response returned (and nothing is appended when it returned none).
C27_OnlyReturnedQuestionAccepted ==
    [][ \A s \in DOMAIN SESSIONS :
          ( /\ resp.status = 200
            /\ resp.session_id = s
            /\ resp.op \in StartOps \cup AnswerOps
            /\ Len(SESSIONS'[s].answers) > Len(SESSIONS[s].answers) )
          => LET returned == IF resp.op \in StartOps THEN resp.question
                             ELSE resp.next_question
                 appended == SESSIONS'[s].answers[Len(SESSIONS'[s].answers)]
             IN  /\ returned # None
                 /\ appended.question_id = returned[1].id ]_vars

\* C28: once a submit response of either entry point has reported the exam
\* finished, the session's completion timestamp is set and
\* get_session_results for that session is not rejected with
\* "Exam not yet completed".
C28_FinishedImpliesResultsAvailable ==
    (resp.op \in AnswerOps /\ resp.status = 200 /\ resp.finished)
        => /\ SESSIONS[resp.session_id].completed_at # None
           /\ get_session_results(resp.session_id).detail # "Exam not yet completed"

\* C29: sessions are isolated. A start or submit-answer call leaves the
\* answers, counters, current difficulty and completion timestamp (and the
\* proctoring flags) of every session other than the one it addresses
\* unchanged, also when the sessions are on the same lecture; a newly
\* created session starts with empty answers and proctoring flags of its
\* own, whatever the other sessions hold; and a proctoring event logged for
\* one session does not show in another session's flags.
C29_SessionsIsolated ==
    [][ /\ (resp'.op \in StartOps \cup AnswerOps)
              => \A s \in DOMAIN SESSIONS :
                    (resp'.op \in StartOps \/ s # resp'.session_id)
                       => /\ s \in DOMAIN SESSIONS'
                          /\ SESSIONS'[s].answers = SESSIONS[s].answers
                          /\ SESSIONS'[s].correct_count = SESSIONS[s].correct_count
                          /\ SESSIONS'[s].total_answered = SESSIONS[s].total_answered
                          /\ SESSIONS'[s].current_difficulty = SESSIONS[s].current_difficulty
                          /\ SESSIONS'[s].completed_at = SESSIONS[s].completed_at
                          /\ SESSIONS'[s].proctoring_flags = SESSIONS[s].proctoring_flags
        /\ (resp'.op \in StartOps /\ resp'.status = 200)
              => /\ SESSIONS'[resp'.session_id].answers = << >>
                 /\ SESSIONS'[resp'.session_id].proctoring_flags = << >>
        /\ (resp'.op = "log_proctoring_event")
              => \A s \in DOMAIN SESSIONS :
                    s # resp'.session_id
                       => /\ SESSIONS'[s].proctoring_flags = SESSIONS[s].proctoring_flags
                          /\ SESSIONS'[s].answers = SESSIONS[s].answers ]_vars

\* two sessions on the same lecture, the first with an answer and a
\* proctoring flag or a changed difficulty, the second just answered and
\* holding only its own record
C29_Witness ==
    /\ Len(SESSIONS) = 2
    /\ SESSIONS[1].lecture_id = SESSIONS[2].lecture_id
    /\ resp.op \in AnswerOps /\ resp.status = 200 /\ resp.session_id = 2
    /\ Len(SESSIONS[1].answers) = 1
    /\ Len(SESSIONS[2].answers) = 1
    /\ SESSIONS[1].answers # SESSIONS[2].answers
    /\ SESSIONS[1].current_difficulty # SESSIONS[2].current_difficulty

\* C30: with the risk levels ordered low < medium < high, the risk level of
\* a proctoring session after logging an event of one of the four known
\* types is never lower than its risk level before the event.
C30_RiskLevelNeverLowers ==
    [][ (resp'.op = "log_proctoring_event" /\ resp'.status = 200)
          => LET Rank(level) == CASE level = "low" -> 0
                                  [] level = "medium" -> 1
                                  [] level = "high" -> 2
             IN  \A s \in DOMAIN proctoring :
                    Rank(proctoring'[s].risk_level) >= Rank(proctoring[s].risk_level) ]_vars

====
